---- MODULE Spec2Model ----
(***************************************************************************)
(* Log gateway of fastapi-backend: the ElasticsearchService (index name    *)
(* resolution, indexing, query building, search, cluster health, stats),   *)
(* the health router built on it, and the process life cycle of main.py.   *)
(*                                                                         *)
(* Python values are modelled as follows.                                  *)
(*   Optional[X]   None is <<>>, a present value v is <<v>>                *)
(*   dict          a record / a function over the keys that are present    *)
(*   list          a sequence                                              *)
(*   str           a TLA+ string; the text produced by datetime.isoformat  *)
(*                 is a sequence of one-character strings, so that the     *)
(*                 backend's positional reading of it can be modelled      *)
(*   exception     a record [type, message, cause, context]                *)
(* A method is an operator from its arguments and the behaviour of the     *)
(* backend during the call to Return(value) or Raise(exception).           *)
(***************************************************************************)
EXTENDS Integers, Sequences, FiniteSets, TLC

VARIABLES
    phase,      \* life cycle of the process (main.py)
    services,   \* module name -> Optional[ElasticsearchService]
    clients,    \* ids of the AsyncElasticsearch clients constructed so far
    closed,     \* the clients on which close() has been awaited, in order
    startup,    \* Optional[result of initialize_indices in startup_event]
    now,        \* the wall clock read by datetime.now()
    ticks,      \* number of clock steps taken (bounds the clock)
    last        \* the latest completed gateway operation and its outcome

vars == <<phase, services, clients, closed, startup, now, ticks, last>>

-----------------------------------------------------------------------------
(* Bounds of the model *)

MaxTicks == 3       \* clock steps per behaviour
MaxDocs == 2        \* documents of the backend that match a search
MaxFrom == 1        \* largest offset of a search request

-----------------------------------------------------------------------------
(* Python basics *)

None == <<>>
Some(v) == <<v>>
ValueOf(o) == o[1]

Min(a, b) == IF a < b THEN a ELSE b
Max(a, b) == IF a > b THEN a ELSE b

\* bool(x) for an Optional[str]: None and "" are falsy
TruthyStr(o) == o # None /\ ValueOf(o) # ""
\* bool(x) for an Optional[Enum] whose members are non-empty strings, and for
\* an Optional[datetime] (a datetime is always truthy)
TruthyObj(o) == o # None

EmptyDict == [k \in {} |-> 0]
\* dict.get(key, default)
DictGet(d, key, default) == IF key \in DOMAIN d THEN d[key] ELSE default

Return(v) == [kind |-> "return", value |-> v]
Raise(e) == [kind |-> "raise", exc |-> e]

\* `raise Exception(msg)` inside `except Exception as e:` (implicit chaining:
\* __cause__ stays None, __context__ is the exception being handled)
ExceptionWhileHandling(msg, e) ==
    [type |-> "Exception", message |-> msg, cause |-> None, context |-> Some(e)]

\* str(e)
StrOfExc(e) == e.message

\* Failures the backend client can raise from any call
BackendErrors ==
    { [type |-> "ConnectionError", message |-> "Connection refused",
       cause |-> None, context |-> None],
      [type |-> "ConnectionTimeout", message |-> "Connection timed out",
       cause |-> None, context |-> None] }

-----------------------------------------------------------------------------
(* Configuration (config.py) *)

elasticsearch_host == "http://localhost:9200"
elasticsearch_index_prefix == "logs"

-----------------------------------------------------------------------------
(* Record model (models/log_model.py) *)

LogLevel == {"DEBUG", "INFO", "WARNING", "ERROR", "CRITICAL"}
LogType == {"web_server", "database", "application", "security"}

SizeMin == 1
SizeMax == 1000
SizeDefault == 100
FromMin == 0

-----------------------------------------------------------------------------
(* Dates and times *)

IsLeap(y) == (y % 4 = 0 /\ y % 100 # 0) \/ y % 400 = 0

DaysInMonth(y, m) ==
    IF m = 2 THEN (IF IsLeap(y) THEN 29 ELSE 28)
    ELSE IF m \in {4, 6, 9, 11} THEN 30 ELSE 31

DigitChar(d) == <<"0", "1", "2", "3", "4", "5", "6", "7", "8", "9">>[d + 1]

RECURSIVE Pow10(_)
Pow10(k) == IF k = 0 THEN 1 ELSE 10 * Pow10(k - 1)

\* the characters of n printed in decimal, zero-padded to `width` digits
Digits(n, width) ==
    [i \in 1..width |-> DigitChar((n \div Pow10(width - i)) % 10)]

RECURSIVE Join(_)
Join(chars) == IF chars = <<>> THEN "" ELSE Head(chars) \o Join(Tail(chars))

\* datetime.strftime("%Y.%m.%d") for a four-digit year
strftime_Ymd(dt) ==
    Join(Digits(dt.year, 4)) \o "." \o Join(Digits(dt.month, 2)) \o "."
        \o Join(Digits(dt.day, 2))

\* datetime.isoformat(): YYYY-MM-DDTHH:MM:SS, then .ffffff if microsecond is
\* not 0, then +HH:MM / -HH:MM if the datetime is aware (tzinfo is the UTC
\* offset in minutes)
isoformat(dt) ==
    Digits(dt.year, 4) \o <<"-">> \o Digits(dt.month, 2) \o <<"-">>
        \o Digits(dt.day, 2) \o <<"T">> \o Digits(dt.hour, 2) \o <<":">>
        \o Digits(dt.minute, 2) \o <<":">> \o Digits(dt.second, 2)
        \o (IF dt.microsecond # 0
            THEN <<".">> \o Digits(dt.microsecond, 6) ELSE <<>>)
        \o (IF dt.tzinfo # None
            THEN LET off == ValueOf(dt.tzinfo)
                     mag == IF off < 0 THEN -off ELSE off
                 IN  <<IF off < 0 THEN "-" ELSE "+">>
                         \o Digits(mag \div 60, 2) \o <<":">>
                         \o Digits(mag % 60, 2)
            ELSE <<>>)

\* Values of the optional time bounds of a query and of record timestamps: a
\* naive datetime, an aware one with a fraction of a second, and an aware one
\* whose UTC offset moves it across a day and month boundary
DateTimes ==
    { [year |-> 2024, month |-> 1, day |-> 15, hour |-> 10, minute |-> 30,
       second |-> 0, microsecond |-> 0, tzinfo |-> None],
      [year |-> 2024, month |-> 1, day |-> 14, hour |-> 23, minute |-> 59,
       second |-> 59, microsecond |-> 500000, tzinfo |-> Some(0)],
      [year |-> 2024, month |-> 2, day |-> 29, hour |-> 20, minute |-> 0,
       second |-> 0, microsecond |-> 0, tzinfo |-> Some(-330)] }

\* datetime.now(): the local wall clock (only the fields this model moves)
Clock(y, m, d, h) ==
    [year |-> y, month |-> m, day |-> d, hour |-> h, minute |-> 0,
     second |-> 0, microsecond |-> 0, tzinfo |-> None]

DateOf(dt) == <<dt.year, dt.month, dt.day>>

\* the first hour of the day after dt
NextDay(dt) ==
    IF dt.day < DaysInMonth(dt.year, dt.month)
    THEN Clock(dt.year, dt.month, dt.day + 1, 0)
    ELSE IF dt.month < 12 THEN Clock(dt.year, dt.month + 1, 1, 0)
    ELSE Clock(dt.year + 1, 1, 1, 0)

-----------------------------------------------------------------------------
(* The backend client (AsyncElasticsearch), as the service calls it.  The   *)
(* behaviour b of the backend during one call is chosen by the environment: *)
(* it fails with an exception, or it answers.                               *)

Failing(e) == [ok |-> FALSE, exc |-> e]

TemplateBehaviours == {[ok |-> TRUE]} \cup {Failing(e) : e \in BackendErrors}
IndexBehaviours == {[ok |-> TRUE]} \cup {Failing(e) : e \in BackendErrors}
\* matching: how many stored documents match the query; took: milliseconds
SearchBehaviours ==
    {[ok |-> TRUE, matching |-> n, took |-> 5] : n \in 0..MaxDocs}
        \cup {Failing(e) : e \in BackendErrors}
StatsBehaviours ==
    {[ok |-> TRUE, docs |-> n] : n \in 0..MaxDocs}
        \cup {Failing(e) : e \in BackendErrors}

HealthKeys == {"status", "cluster_name", "number_of_nodes"}
\* every payload holding a subset of the three keys the handler reads
HealthPayloads ==
    { [k \in S |-> IF k = "status" THEN st
                   ELSE IF k = "cluster_name" THEN "c1" ELSE n] :
        S \in SUBSET HealthKeys, st \in {"green", "yellow", "red"},
        n \in {1, 3} }
HealthBehaviours ==
    {[ok |-> TRUE, health |-> p] : p \in HealthPayloads}
        \cup {Failing(e) : e \in BackendErrors}

client_indices_put_index_template(b, name, body) ==
    IF b.ok THEN Return([acknowledged |-> TRUE]) ELSE Raise(b.exc)

client_index(b, index, document) ==
    IF b.ok
    THEN Return([_index |-> index, result |-> "created"])
    ELSE Raise(b.exc)

\* the backend answers a search with the page body.size, body.from of the
\* matching documents, never more than body.size hits
client_search(b, index, body) ==
    IF b.ok
    THEN LET n == Min(body.size, Max(0, b.matching - body.from))
         IN  Return([took |-> b.took,
                     hits |-> [total |-> [value |-> b.matching],
                               hits |-> [i \in 1..n |->
                                   [_index |-> index,
                                    _source |-> [id |-> body.from + i]]]]])
    ELSE Raise(b.exc)

client_cluster_health(b) == IF b.ok THEN Return(b.health) ELSE Raise(b.exc)

client_indices_stats(b, index) ==
    IF b.ok
    THEN Return([_all |-> [primaries |-> [docs |-> [count |-> b.docs]]]])
    ELSE Raise(b.exc)

-----------------------------------------------------------------------------
(* services/elasticsearch_service.py *)

\* ElasticsearchService.__init__, given the id of the client it constructs
ElasticsearchService(clientId) ==
    [es_host |-> elasticsearch_host,
     client |-> clientId,
     index_prefix |-> elasticsearch_index_prefix]

index_template(self) ==
    [index_patterns |-> <<self.index_prefix \o "-*">>,
     template |->
        [settings |-> [k \in {"number_of_shards", "number_of_replicas",
                               "index.refresh_interval"} |->
                          IF k = "number_of_shards" THEN 1
                          ELSE IF k = "number_of_replicas" THEN 0 ELSE "5s"],
         mappings |-> [properties |->
            [timestamp |-> [type |-> "date"],
             level |-> [type |-> "keyword"],
             log_type |-> [type |-> "keyword"],
             message |-> [type |-> "text", analyzer |-> "standard"],
             source |-> [type |-> "keyword"],
             metadata |-> [type |-> "object", enabled |-> TRUE]]]]]

\* initialize_indices without the except clause: the failure leaves the method
initialize_indices_propagates(self, b) ==
    LET request == [api |-> "indices.put_index_template",
                    name |-> "logs-template", body |-> index_template(self)]
        r == client_indices_put_index_template(b, request.name, request.body)
    IN  [requests |-> <<request>>,
         outcome |-> IF r.kind = "raise" THEN Raise(r.exc) ELSE Return(None),
         printed |-> <<>>]

\* A method yields the requests it sends to the backend client, in order, and
\* its outcome.
\* initialize_indices: also the lines it prints
initialize_indices(self, b) ==
    LET request == [api |-> "indices.put_index_template",
                    name |-> "logs-template", body |-> index_template(self)]
        r == client_indices_put_index_template(b, request.name, request.body)
    IN  IF r.kind = "raise"
        THEN [requests |-> <<request>>, outcome |-> Return(None),
              printed |-> <<"Warning: Could not create index template: "
                              \o StrOfExc(r.exc)>>]
        ELSE [requests |-> <<request>>, outcome |-> Return(None),
              printed |-> <<>>]

\* _get_index_name, given the value datetime.now() returns
get_index_name(self, log_type, clock) ==
    self.index_prefix \o "-" \o log_type \o "-" \o strftime_Ymd(clock)

\* log_entry.dict(): the fields of the entry, by name
LogEntryDict(log_entry) == [k \in DOMAIN log_entry |-> log_entry[k]]

\* index_log that names the index after the day of the record's timestamp
index_log_by_record_day(self, log_entry, clock, b) ==
    LET index_name ==
            get_index_name(self, log_entry.log_type, log_entry.timestamp)
        doc == LogEntryDict(log_entry)
        request == [api |-> "index", index |-> index_name, document |-> doc]
        r == client_index(b, request.index, request.document)
    IN  [requests |-> <<request>>,
         outcome |->
            IF r.kind = "return"
            THEN Return(r.value)
            ELSE Raise(ExceptionWhileHandling(
                     "Failed to index log: " \o StrOfExc(r.exc), r.exc))]

index_log(self, log_entry, clock, b) ==
    LET index_name == get_index_name(self, log_entry.log_type, clock)
        doc == LogEntryDict(log_entry)
        request == [api |-> "index", index |-> index_name, document |-> doc]
        r == client_index(b, request.index, request.document)
    IN  [requests |-> <<request>>,
         outcome |->
            IF r.kind = "return"
            THEN Return(r.value)
            ELSE Raise(ExceptionWhileHandling(
                     "Failed to index log: " \o StrOfExc(r.exc), r.exc))]

\* time_range with the upper bound stored under the key of the lower one
time_range_one_key(query) ==
    (IF TruthyObj(query.end_time)
     THEN [gte |-> isoformat(ValueOf(query.end_time))]
     ELSE IF TruthyObj(query.start_time)
     THEN [gte |-> isoformat(ValueOf(query.start_time))] ELSE EmptyDict)

\* the range dict of search_logs, lines 80-84
time_range(query) ==
    (IF TruthyObj(query.start_time)
     THEN [gte |-> isoformat(ValueOf(query.start_time))] ELSE EmptyDict)
    @@
    (IF TruthyObj(query.end_time)
     THEN [lte |-> isoformat(ValueOf(query.end_time))] ELSE EmptyDict)

\* must_clauses with the level test chained to the log_type test by elif
must_clauses_elif(query) ==
    (IF TruthyObj(query.log_type)
     THEN <<[term |-> [log_type |-> ValueOf(query.log_type)]]>>
     ELSE IF TruthyObj(query.level)
     THEN <<[term |-> [level |-> ValueOf(query.level)]]>> ELSE <<>>)
    \o (IF TruthyStr(query.source)
        THEN <<[term |-> [source |-> ValueOf(query.source)]]>> ELSE <<>>)
    \o (IF TruthyObj(query.start_time) \/ TruthyObj(query.end_time)
        THEN <<[range |-> [timestamp |-> time_range(query)]]>> ELSE <<>>)
    \o (IF TruthyStr(query.query_string)
        THEN <<[query_string |->
                  [query |-> ValueOf(query.query_string),
                   default_field |-> "message"]]>>
        ELSE <<>>)

\* the list must_clauses of search_logs, as built by its appends
must_clauses(query) ==
    (IF TruthyObj(query.log_type)
     THEN <<[term |-> [log_type |-> ValueOf(query.log_type)]]>> ELSE <<>>)
    \o (IF TruthyObj(query.level)
        THEN <<[term |-> [level |-> ValueOf(query.level)]]>> ELSE <<>>)
    \o (IF TruthyStr(query.source)
        THEN <<[term |-> [source |-> ValueOf(query.source)]]>> ELSE <<>>)
    \o (IF TruthyObj(query.start_time) \/ TruthyObj(query.end_time)
        THEN <<[range |-> [timestamp |-> time_range(query)]]>> ELSE <<>>)
    \o (IF TruthyStr(query.query_string)
        THEN <<[query_string |->
                  [query |-> ValueOf(query.query_string),
                   default_field |-> "message"]]>>
        ELSE <<>>)

\* search_body without the match_all fallback
search_body_no_fallback(query) ==
    [query |-> [bool |-> [must |-> must_clauses(query)]],
     size |-> query.size,
     from |-> query.from_,
     sort |-> <<[timestamp |-> [order |-> "desc"]]>>]

\* search_body that leaves the page size to the backend's default of 10
search_body_default_size(query) ==
    LET clauses == must_clauses(query)
    IN  [query |-> [bool |-> [must |->
            IF clauses # <<>> THEN clauses ELSE <<[match_all |-> EmptyDict]>>]],
         size |-> 10,
         from |-> query.from_,
         sort |-> <<[timestamp |-> [order |-> "desc"]]>>]

search_body(query) ==
    LET clauses == must_clauses(query)
    IN  [query |-> [bool |-> [must |->
            IF clauses # <<>> THEN clauses ELSE <<[match_all |-> EmptyDict]>>]],
         size |-> query.size,
         from |-> query.from_,
         sort |-> <<[timestamp |-> [order |-> "desc"]]>>]

index_pattern(self) == self.index_prefix \o "-*"

\* the normalised result of search_logs, lines 114-118
search_result(response) ==
    [total |-> response.hits.total.value,
     logs |-> [i \in 1..Len(response.hits.hits) |->
                  response.hits.hits[i]._source],
     took |-> response.took]

\* search_logs that answers a backend failure with an empty result
search_logs_swallows(self, query, b) ==
    LET request == [api |-> "search", index |-> index_pattern(self),
                    body |-> search_body(query)]
        r == client_search(b, request.index, request.body)
    IN  [requests |-> <<request>>,
         outcome |->
            IF r.kind = "return"
            THEN Return(search_result(r.value))
            ELSE Return([total |-> 0, logs |-> <<>>, took |-> 0])]

search_logs(self, query, b) ==
    LET request == [api |-> "search", index |-> index_pattern(self),
                    body |-> search_body(query)]
        r == client_search(b, request.index, request.body)
    IN  [requests |-> <<request>>,
         outcome |->
            IF r.kind = "return"
            THEN Return(search_result(r.value))
            ELSE Raise(ExceptionWhileHandling(
                     "Failed to search logs: " \o StrOfExc(r.exc), r.exc))]

\* get_cluster_health that answers a backend failure with an empty payload
get_cluster_health_defaulting(self, b) ==
    LET request == [api |-> "cluster.health"]
        r == client_cluster_health(b)
    IN  [requests |-> <<request>>,
         outcome |-> IF r.kind = "return"
                     THEN Return(r.value) ELSE Return(EmptyDict)]

get_cluster_health(self, b) ==
    LET request == [api |-> "cluster.health"]
        r == client_cluster_health(b)
    IN  [requests |-> <<request>>,
         outcome |->
            IF r.kind = "return"
            THEN Return(r.value)
            ELSE Raise(ExceptionWhileHandling(
                     "Failed to get cluster health: " \o StrOfExc(r.exc),
                     r.exc))]

get_index_stats(self, b) ==
    LET request == [api |-> "indices.stats", index |-> index_pattern(self)]
        r == client_indices_stats(b, request.index)
    IN  [requests |-> <<request>>,
         outcome |->
            IF r.kind = "return"
            THEN Return(r.value)
            ELSE Raise(ExceptionWhileHandling(
                     "Failed to get index stats: " \o StrOfExc(r.exc),
                     r.exc))]

\* close(): awaits client.close(); the closed clients afterwards
close(self, closedBefore) == Append(closedBefore, self.client)

-----------------------------------------------------------------------------
(* routers/health.py *)

HTTP_503_SERVICE_UNAVAILABLE == 503

\* `raise HTTPException(...) from exc`
HTTPException(status_code, detail, exc) ==
    [type |-> "HTTPException", status_code |-> status_code,
     detail |-> detail, cause |-> Some(exc), context |-> Some(exc)]

\* HealthSummary that takes a missing status for green
HealthSummary_optimistic(cluster_health) ==
    [status |-> DictGet(cluster_health, "status", "green"),
     cluster_name |-> DictGet(cluster_health, "cluster_name", "unknown"),
     number_of_nodes |-> DictGet(cluster_health, "number_of_nodes", 0)]

\* the elasticsearch dict of the response, lines 66-70
HealthSummary(cluster_health) ==
    [status |-> DictGet(cluster_health, "status", "unknown"),
     cluster_name |-> DictGet(cluster_health, "cluster_name", "unknown"),
     number_of_nodes |-> DictGet(cluster_health, "number_of_nodes", 0)]

HealthResponse(status, elasticsearch) ==
    [status |-> status, elasticsearch |-> elasticsearch]

\* the handler of GET /api/health/, on the router's own service
health_check(es_service, b) ==
    LET called == get_cluster_health(es_service, b)
        r == called.outcome
    IN  [requests |-> called.requests,
         outcome |->
            IF r.kind = "raise"
            THEN IF r.exc.type = "HTTPException"
                 THEN Raise(r.exc)
                 ELSE Raise(HTTPException(HTTP_503_SERVICE_UNAVAILABLE,
                                "Elasticsearch connection failed", r.exc))
            ELSE Return(HealthResponse("healthy", HealthSummary(r.value)))]

-----------------------------------------------------------------------------
(* Requests *)

Optional(S) == {None} \cup {Some(v) : v \in S}

Sources == {"", "nginx"}
QueryStrings == {"", "error"}
Sizes == {SizeMin, SizeMin + 1, SizeDefault, SizeMax}
Offsets == FromMin..MaxFrom

\* values of LogQuery the query model admits: every combination of the filter
\* fields with the default page, and every page of a few filter combinations
FilterQueries ==
    [log_type : Optional(LogType), level : Optional(LogLevel),
     source : Optional(Sources), start_time : Optional(DateTimes),
     end_time : Optional(DateTimes), query_string : Optional(QueryStrings),
     size : {SizeDefault}, from_ : {FromMin}]
PageQueries ==
    [log_type : {None, Some("application")}, level : {None},
     source : {None}, start_time : {None}, end_time : {None},
     query_string : {None, Some("error")}, size : Sizes, from_ : Offsets]
LogQuery == FilterQueries \cup PageQueries

\* LogQuery() with every field at its default
DefaultQuery ==
    [log_type |-> None, level |-> None, source |-> None, start_time |-> None,
     end_time |-> None, query_string |-> None, size |-> SizeDefault,
     from_ |-> FromMin]

\* the queries issued while the whole process is modelled
SampleQueries ==
    { DefaultQuery,
      [DefaultQuery EXCEPT !.query_string = Some("error")],
      [DefaultQuery EXCEPT !.log_type = Some("application"),
                           !.level = Some("ERROR"), !.size = SizeMin] }

\* the values of LogEntry indexed: every category, every timestamp
LogEntry ==
    [timestamp : DateTimes, level : {"INFO"}, log_type : LogType,
     message : {"Request processed successfully"}, source : {"nginx"},
     metadata : {None}]

\* the entries indexed while the whole process is modelled
SampleEntries ==
    {e \in LogEntry : /\ e.log_type \in {"application", "web_server"}
                      /\ e.timestamp.tzinfo = None}

-----------------------------------------------------------------------------
(* The process: main.py, routers/health.py *)

ModuleNames == {"routers.health", "main"}

Constructed == {m \in ModuleNames : services[m] # None}

\* a fresh AsyncElasticsearch client
NewClient == Cardinality(clients) + 1

Init ==
    /\ phase = "boot"
    /\ services = [m \in ModuleNames |-> None]
    /\ clients = {}
    /\ closed = <<>>
    /\ startup = None
    /\ now = Clock(2024, 1, 15, 10)
    /\ ticks = 0
    /\ last = [op |-> "none"]

\* main.py line 5 imports routers.health, whose line 27 constructs a service
ImportHealthRouter ==
    /\ phase = "boot"
    /\ services' = [services EXCEPT
                      !["routers.health"] = Some(ElasticsearchService(NewClient))]
    /\ clients' = clients \cup {NewClient}
    /\ phase' = "health_imported"
    /\ UNCHANGED <<closed, startup, now, ticks, last>>

\* main.py line 47 constructs the service of the application
ConstructMainService ==
    /\ phase = "health_imported"
    /\ services' = [services EXCEPT
                      !["main"] = Some(ElasticsearchService(NewClient))]
    /\ clients' = clients \cup {NewClient}
    /\ phase' = "loaded"
    /\ UNCHANGED <<closed, startup, now, ticks, last>>

\* startup_event: awaits initialize_indices of main's service; an exception
\* leaving the handler aborts the startup of the application
StartupEvent ==
    /\ phase = "loaded"
    /\ \E b \in TemplateBehaviours :
         LET es_service == ValueOf(services["main"])
             r == initialize_indices(es_service, b)
         IN  /\ startup' = Some([backend |-> b, outcome |-> r.outcome,
                                 printed |-> r.printed])
             /\ phase' = IF r.outcome.kind = "return"
                         THEN "ready" ELSE "startup_aborted"
             /\ last' = [op |-> "initialize_indices",
                         client |-> es_service.client, backend |-> b,
                         requests |-> r.requests, outcome |-> r.outcome]
    /\ UNCHANGED <<services, clients, closed, now, ticks>>

\* GET /api/health/
HealthCheck ==
    /\ phase = "ready"
    /\ \E b \in HealthBehaviours :
         LET es_service == ValueOf(services["routers.health"])
             r == health_check(es_service, b)
         IN  last' = [op |-> "health_check", client |-> es_service.client,
                      backend |-> b, requests |-> r.requests,
                      outcome |-> r.outcome]
    /\ UNCHANGED <<phase, services, clients, closed, startup, now, ticks>>

\* a call of index_log on a constructed service
IndexLog(m, log_entry, b) ==
    /\ phase = "ready"
    /\ m \in Constructed
    /\ LET self == ValueOf(services[m])
           r == index_log(self, log_entry, now, b)
       IN  last' = [op |-> "index_log", client |-> self.client,
                    entry |-> log_entry, clock |-> now, backend |-> b,
                    requests |-> r.requests, outcome |-> r.outcome]
    /\ UNCHANGED <<phase, services, clients, closed, startup, now, ticks>>

\* a call of search_logs on a constructed service
SearchLogs(m, query, b) ==
    /\ phase = "ready"
    /\ m \in Constructed
    /\ LET self == ValueOf(services[m])
           r == search_logs(self, query, b)
       IN  last' = [op |-> "search_logs", client |-> self.client,
                    query |-> query, backend |-> b,
                    requests |-> r.requests, outcome |-> r.outcome]
    /\ UNCHANGED <<phase, services, clients, closed, startup, now, ticks>>

\* a call of get_index_stats on a constructed service
GetIndexStats(m, b) ==
    /\ phase = "ready"
    /\ m \in Constructed
    /\ LET self == ValueOf(services[m])
           r == get_index_stats(self, b)
       IN  last' = [op |-> "get_index_stats", client |-> self.client,
                    backend |-> b, requests |-> r.requests,
                    outcome |-> r.outcome]
    /\ UNCHANGED <<phase, services, clients, closed, startup, now, ticks>>

\* the server stops: main.py registers no shutdown handler, so nothing awaits
\* close() on either service
Shutdown ==
    /\ phase = "ready"
    /\ phase' = "stopped"
    /\ UNCHANGED <<services, clients, closed, startup, now, ticks,
                   last>>

\* the wall clock moves on within the day
TickSameDay ==
    /\ ticks < MaxTicks
    /\ now.hour < 23
    /\ now' = [now EXCEPT !.hour = 23]
    /\ ticks' = ticks + 1
    /\ UNCHANGED <<phase, services, clients, closed, startup, last>>

\* the wall clock passes midnight
TickMidnight ==
    /\ ticks < MaxTicks
    /\ now' = NextDay(now)
    /\ ticks' = ticks + 1
    /\ UNCHANGED <<phase, services, clients, closed, startup, last>>

Next ==
    \/ ImportHealthRouter
    \/ ConstructMainService
    \/ StartupEvent
    \/ HealthCheck
    \/ \E m \in ModuleNames, e \in SampleEntries, b \in IndexBehaviours :
         IndexLog(m, e, b)
    \/ \E m \in ModuleNames, q \in SampleQueries, b \in SearchBehaviours :
         SearchLogs(m, q, b)
    \/ \E m \in ModuleNames, b \in StatsBehaviours : GetIndexStats(m, b)
    \/ Shutdown

Spec == Init /\ [][Next]_vars

\* the process from its start, with the scheduling the server guarantees: the
\* module is loaded and the startup handler runs
LiveSpec ==
    /\ Init /\ [][Next]_vars
    /\ WF_vars(ImportHealthRouter)
    /\ WF_vars(ConstructMainService)
    /\ WF_vars(StartupEvent)

\* the state of the process once it serves requests (the state Spec reaches
\* by ImportHealthRouter, ConstructMainService and a successful StartupEvent)
Serving ==
    /\ phase = "ready"
    /\ services = [m \in ModuleNames |->
                     Some(ElasticsearchService(
                         IF m = "routers.health" THEN 1 ELSE 2))]
    /\ clients = {1, 2}
    /\ closed = <<>>
    /\ startup = Some([backend |-> [ok |-> TRUE], outcome |-> Return(None),
                       printed |-> <<>>])
    /\ ticks = 0

\* index-name resolution over several days, from year, month and leap-day
\* boundaries
StartTimes ==
    {Clock(2023, 12, 31, 0), Clock(2024, 1, 14, 0), Clock(2024, 2, 28, 0)}

InitIndex ==
    /\ Serving
    /\ now \in StartTimes
    /\ last = [op |-> "none"]

NextIndex ==
    \/ \E e \in LogEntry, b \in IndexBehaviours : IndexLog("main", e, b)
    \/ TickSameDay
    \/ TickMidnight

SpecIndex == InitIndex /\ [][NextIndex]_vars

\* one search request per behaviour, drawn from every admitted LogQuery
InitSearch ==
    /\ Serving
    /\ now = Clock(2024, 1, 15, 10)
    /\ \E q \in LogQuery : last = [op |-> "search_request", query |-> q]

NextSearch ==
    \E b \in SearchBehaviours :
        /\ last.op = "search_request"
        /\ SearchLogs("main", last.query, b)

SpecSearch == InitSearch /\ [][NextSearch]_vars

-----------------------------------------------------------------------------
(* Reading what the gateway sent and returned *)

Searched == last.op = "search_logs"
\* the clause list of the query the last search sent to the backend
SentClauses == last.requests[1].body.query.bool.must

IsTermOn(c, field) == DOMAIN c = {"term"} /\ DOMAIN c.term = {field}
IsRangeOnTimestamp(c) == DOMAIN c = {"range"} /\ DOMAIN c.range = {"timestamp"}
IsFreeText(c) == DOMAIN c = {"query_string"}
IsMatchAll(c) == DOMAIN c = {"match_all"} /\ DOMAIN c.match_all = {}

CountOf(seq, P(_)) == Cardinality({i \in 1..Len(seq) : P(seq[i])})

\* the exact-term clause on `field` is in cl once, with the value of o, when
\* `present`, and not at all otherwise
TermExactlyWhen(cl, field, o, present) ==
    IF present
    THEN /\ CountOf(cl, LAMBDA c : IsTermOn(c, field)) = 1
         /\ \E i \in 1..Len(cl) : cl[i] = [term |-> [f \in {field} |-> ValueOf(o)]]
    ELSE CountOf(cl, LAMBDA c : IsTermOn(c, field)) = 0

\* the clause list cl is the one described for query q, where hasSource and
\* hasText say whether source and query_string count as supplied
ClausesAsDescribed(q, cl, hasSource, hasText) ==
    /\ TermExactlyWhen(cl, "log_type", q.log_type, q.log_type # None)
    /\ TermExactlyWhen(cl, "level", q.level, q.level # None)
    /\ TermExactlyWhen(cl, "source", q.source, hasSource)
    /\ CountOf(cl, IsRangeOnTimestamp)
          = (IF q.start_time # None \/ q.end_time # None THEN 1 ELSE 0)
    /\ IF hasText
       THEN /\ CountOf(cl, IsFreeText) = 1
            /\ \E i \in 1..Len(cl) :
                 cl[i] = [query_string |->
                            [query |-> ValueOf(q.query_string),
                             default_field |-> "message"]]
       ELSE CountOf(cl, IsFreeText) = 0
    /\ \A i \in 1..Len(cl) :
         \/ IsTermOn(cl[i], "log_type") \/ IsTermOn(cl[i], "level")
         \/ IsTermOn(cl[i], "source") \/ IsRangeOnTimestamp(cl[i])
         \/ IsFreeText(cl[i]) \/ IsMatchAll(cl[i])

AllFiltersAbsent(q) ==
    /\ q.log_type = None /\ q.level = None /\ q.source = None
    /\ q.start_time = None /\ q.end_time = None /\ q.query_string = None

(* The instant a date-time text denotes (ISO 8601, read by position; a text  *)
(* without an offset is read as UTC): seconds since 2000-01-01T00:00:00Z and *)
(* microseconds                                                              *)

DigitValue(c) == CHOOSE d \in 0..9 : DigitChar(d) = c

RECURSIVE NumberOf(_)
NumberOf(chars) ==
    IF chars = <<>> THEN 0
    ELSE 10 * NumberOf(SubSeq(chars, 1, Len(chars) - 1))
            + DigitValue(chars[Len(chars)])

RECURSIVE DaysBeforeYear(_)
DaysBeforeYear(y) ==
    IF y <= 2000 THEN 0
    ELSE DaysBeforeYear(y - 1) + (IF IsLeap(y - 1) THEN 366 ELSE 365)

RECURSIVE DaysBeforeMonth(_, _)
DaysBeforeMonth(y, m) ==
    IF m <= 1 THEN 0 ELSE DaysBeforeMonth(y, m - 1) + DaysInMonth(y, m - 1)

EpochSeconds(y, mo, d, h, mi, sec, offsetMinutes) ==
    ((DaysBeforeYear(y) + DaysBeforeMonth(y, mo) + d - 1) * 24 + h) * 3600
        + (mi - offsetMinutes) * 60 + sec

InstantOfDatetime(dt) ==
    <<EpochSeconds(dt.year, dt.month, dt.day, dt.hour, dt.minute, dt.second,
                   IF dt.tzinfo = None THEN 0 ELSE ValueOf(dt.tzinfo)),
      dt.microsecond>>

InstantOfText(t) ==
    LET hasFraction == Len(t) >= 20 /\ t[20] = "."
        micro == IF hasFraction THEN NumberOf(SubSeq(t, 21, 26)) ELSE 0
        z == IF hasFraction THEN 27 ELSE 20
        offset == IF Len(t) < z THEN 0
                  ELSE (IF t[z] = "-" THEN -1 ELSE 1)
                         * (60 * NumberOf(SubSeq(t, z + 1, z + 2))
                              + NumberOf(SubSeq(t, z + 4, z + 5)))
    IN  <<EpochSeconds(NumberOf(SubSeq(t, 1, 4)), NumberOf(SubSeq(t, 6, 7)),
                       NumberOf(SubSeq(t, 9, 10)), NumberOf(SubSeq(t, 12, 13)),
                       NumberOf(SubSeq(t, 15, 16)), NumberOf(SubSeq(t, 18, 19)),
                       offset),
          micro>>

-----------------------------------------------------------------------------
(* Query building and search *)

\* C2, as stated: for every admitted SearchQuery the clause list holds an
\* exact-term clause on category, level and source exactly when that field is
\* supplied (is not None), one range clause on timestamp exactly when a time
\* bound is supplied, one free-text clause on message with the literal query
\* string exactly when a query string is supplied, and no other filter clause.
C2_ClausesExactlyWhenSupplied ==
    Searched =>
        ClausesAsDescribed(last.query, SentClauses,
                           last.query.source # None,
                           last.query.query_string # None)

\* C2, amended: as above, where a source and a query string count as supplied
\* only when they are not the empty string: an empty source or query string
\* adds no clause.
C2_ClausesExactlyWhenNonEmpty ==
    Searched =>
        ClausesAsDescribed(last.query, SentClauses,
                           last.query.source \notin {None, Some("")},
                           last.query.query_string \notin {None, Some("")})

\* a search with category, level and query string supplied and an empty source
C2_Witness ==
    /\ Searched
    /\ last.query.log_type # None /\ last.query.level # None
    /\ last.query.source = Some("")
    /\ last.query.query_string = Some("error")
    /\ last.query.start_time = None /\ last.query.end_time = None
    /\ Len(SentClauses) = 3

\* C3: with all filters absent the clause list sent to the backend is exactly
\* one match-every-document clause, and for every query the clause list sent
\* is not empty.
C3_NeverEmptyClauseList ==
    Searched =>
        /\ SentClauses # <<>>
        /\ AllFiltersAbsent(last.query) =>
              Len(SentClauses) = 1 /\ IsMatchAll(SentClauses[1])

C3_Witness ==
    /\ Searched
    /\ AllFiltersAbsent(last.query)
    /\ Len(SentClauses) = 1

FailurePrefixes ==
    {"Failed to index log: ", "Failed to get cluster health: ",
     "Failed to get index stats: "}

C10_RangeBounds ==
    (Searched /\ (last.query.start_time # None \/ last.query.end_time # None))
    =>  LET q == last.query
            ranges == SelectSeq(SentClauses, IsRangeOnTimestamp)
            tr == ranges[1].range.timestamp
        IN  /\ Len(ranges) = 1
            /\ DOMAIN tr = (IF q.start_time # None THEN {"gte"} ELSE {})
                             \cup (IF q.end_time # None THEN {"lte"} ELSE {})
            /\ q.start_time # None =>
                 InstantOfText(tr.gte) = InstantOfDatetime(ValueOf(q.start_time))
            /\ q.end_time # None =>
                 InstantOfText(tr.lte) = InstantOfDatetime(ValueOf(q.end_time))

\* only a lower bound, given with a UTC offset
C10_Witness ==
    /\ Searched
    /\ last.query.start_time # None
    /\ ValueOf(last.query.start_time).tzinfo = Some(-330)
    /\ last.query.end_time = None
    /\ CountOf(SentClauses, IsRangeOnTimestamp) = 1

-----------------------------------------------------------------------------
(* Index routing *)

Indexed == last.op = "index_log"
\* the index name the last index_log sent to the backend
UsedIndex == last.requests[1].index

TwoDigits(n) == IF n < 10 THEN "0" \o ToString(n) ELSE ToString(n)

\* prefix-category-YYYY.MM.DD
NameFor(prefix, category, date) ==
    prefix \o "-" \o category \o "-" \o ToString(date[1]) \o "."
        \o TwoDigits(date[2]) \o "." \o TwoDigits(date[3])

\* C1: the index name used when indexing is prefix-category-YYYY.MM.DD of the
\* wall-clock day of the call (application on 2024-01-15 with prefix logs gives
\* logs-application-2024.01.15); of two successive resolutions for the same
\* category, those on the same calendar day give the same name and those on
\* different days different names, whatever the records' own timestamps.
C1_IndexNameOfWallClockDay ==
    /\ [](Indexed =>
            /\ Len(last.requests) = 1 /\ last.requests[1].api = "index"
            /\ UsedIndex = NameFor(elasticsearch_index_prefix,
                                   last.entry.log_type, DateOf(last.clock))
            /\ (last.entry.log_type = "application"
                    /\ DateOf(last.clock) = <<2024, 1, 15>>)
                => UsedIndex = "logs-application-2024.01.15")
    /\ [][(Indexed /\ Indexed' /\ last.entry.log_type = last'.entry.log_type)
            => ((DateOf(last.clock) = DateOf(last'.clock))
                   <=> (last.requests[1].index = last'.requests[1].index))]_vars

\* an application record with a timestamp of another day, indexed on 2024-01-15
C1_Witness ==
    /\ Indexed
    /\ last.entry.log_type = "application"
    /\ DateOf(last.clock) = <<2024, 1, 15>>
    /\ DateOf(last.entry.timestamp) # DateOf(last.clock)
    /\ UsedIndex = "logs-application-2024.01.15"

-----------------------------------------------------------------------------
(* Health *)

HealthChecked == last.op = "health_check"

\* C6: a health check returns a summary with the healthy marker exactly when
\* the backend health call returns, whatever payload it reports, and ends in
\* the service-unavailable failure exactly when the backend call raises.
C6_HealthyIffBackendAnswers ==
    HealthChecked =>
        IF last.backend.ok
        THEN /\ last.outcome.kind = "return"
             /\ last.outcome.value.status = "healthy"
        ELSE /\ last.outcome.kind = "raise"
             /\ last.outcome.exc.type = "HTTPException"
             /\ last.outcome.exc.status_code = 503

\* the backend health call raised and the check ended in the failure
C6_Witness ==
    /\ HealthChecked
    /\ ~last.backend.ok
    /\ last.outcome.kind = "raise"

HealthDefault(key) == IF key = "number_of_nodes" THEN 0 ELSE "unknown"

\* C7: for every payload holding any subset of status, cluster_name and
\* number_of_nodes, the summary is built and each of its three fields is the
\* payload's value when the key is present and otherwise the default
\* ("unknown", "unknown", 0); {green, c1, 3} yields exactly those values.
C7_SummaryDefaults ==
    (HealthChecked /\ last.backend.ok) =>
        /\ last.outcome.kind = "return"
        /\ DOMAIN last.outcome.value.elasticsearch = HealthKeys
        /\ \A k \in HealthKeys :
              last.outcome.value.elasticsearch[k]
                  = IF k \in DOMAIN last.backend.health
                    THEN last.backend.health[k] ELSE HealthDefault(k)
        /\ last.backend.health
              = [status |-> "green", cluster_name |-> "c1",
                 number_of_nodes |-> 3]
           => last.outcome.value.elasticsearch
                 = [status |-> "green", cluster_name |-> "c1",
                    number_of_nodes |-> 3]

\* the summary of the empty payload
C7_Witness ==
    /\ HealthChecked
    /\ last.backend.ok
    /\ DOMAIN last.backend.health = {}
    /\ last.outcome.kind = "return"
    /\ last.outcome.value.elasticsearch
          = [status |-> "unknown", cluster_name |-> "unknown",
             number_of_nodes |-> 0]

-----------------------------------------------------------------------------
(* Life cycle *)

\* C8: startup completes and the gateway becomes ready whether the template
\* registration succeeds or fails: initialize_indices returns normally in both
\* cases, a failure is printed as a warning, and the startup is never aborted.
C8_StartupCompletes ==
    /\ <>(phase = "ready")
    /\ [](phase # "startup_aborted")
    /\ [](startup # None =>
            /\ ValueOf(startup).outcome.kind = "return"
            /\ phase \in {"ready", "stopped"}
            /\ ~ValueOf(startup).backend.ok =>
                  ValueOf(startup).printed
                      = <<"Warning: Could not create index template: "
                            \o ValueOf(startup).backend.exc.message>>)

\* the process is ready after a failed template registration
C8_Witness ==
    /\ phase = "ready"
    /\ startup # None
    /\ ~ValueOf(startup).backend.ok

\* C9, as stated: one backend connection per process, constructed once, used by
\* every gateway operation of every handler, and closed exactly once by the
\* time the process has shut down.
C9_SingleConnection ==
    /\ Cardinality(clients) <= 1
    /\ last.op # "none" => clients = {last.client}
    /\ phase = "stopped" => Len(closed) = 1 /\ {closed[1]} = clients

====
